---- MODULE Spec2Model ----
(***************************************************************************)
(* kache: the `cache` decorator of src/kache/__init__.py.                  *)
(*                                                                         *)
(* A wrapped computation derives a string key from its bound parameters,   *)
(* looks the key up in a backend (the in-memory dict of the wrapping, or a *)
(* shelve database opened afresh for the call), computes and stores on a   *)
(* miss, re-reads the entry, closes the backend and returns.               *)
(***************************************************************************)
EXTENDS Integers, Sequences, FiniteSets, TLC

\* Bounds of the model.
MaxCalls == 3          \* calls started in one behaviour
MaxConcCalls == 2      \* calls started in one behaviour of concurrent callers

Threads == {1, 2}      \* callers; the sequential specification uses the first
SeqThreads == {1}
Wrapped == {1, 2}      \* the wrapped computations (results of cache(...))

(***************************************************************************)
(* Python values: ints and floats.  1 == 1.0 in Python, but their text     *)
(* (repr) differs.                                                         *)
(***************************************************************************)
PyInt(n) == [ty |-> "int", n |-> n]
PyFloat(n) == [ty |-> "float", n |-> n]
\* v == u in Python: numbers compare by value
PyEq(v, u) == v.n = u.n

Digits == <<"0", "1", "2", "3", "4", "5", "6", "7", "8", "9">>
RECURSIVE IntStr(_)
IntStr(n) == IF n < 10 THEN Digits[n + 1]
             ELSE IntStr(n \div 10) \o Digits[(n % 10) + 1]

\* repr(v) of a value, as str() of a containing list or tuple prints it
Repr(v) == CASE v.ty = "int" -> IntStr(v.n)
             [] v.ty = "float" -> IntStr(v.n) \o ".0"
             [] OTHER -> "None"

(***************************************************************************)
(* The wrapped functions.  Both have the signature (a, b=2) of the         *)
(* doctest's lambda; body 1 is a*b (the doctest), body 2 is a+b.           *)
(***************************************************************************)
ParamNames == <<"a", "b">>
HasDefault(p) == p = "b"
DefaultOf(p) == PyInt(2)

AVals == {PyInt(1), PyInt(2), PyFloat(1)}
BVals == {PyInt(2)}

\* A call f(*args, **kwargs): the positional values, and the keywords in the
\* order they were written.
Calls ==
    {[args |-> <<>>, kwargs |-> <<>>]}
    \cup {[args |-> <<a>>, kwargs |-> <<>>] : a \in AVals}
    \cup {[args |-> <<>>, kwargs |-> << <<"a", a>> >>] : a \in AVals}
    \cup {[args |-> <<a, b>>, kwargs |-> <<>>] : a \in AVals, b \in BVals}
    \cup {[args |-> <<a>>, kwargs |-> << <<"b", b>> >>] : a \in AVals, b \in BVals}
    \cup {[args |-> <<a>>, kwargs |-> << <<"a", a>> >>] : a \in AVals}
    \cup {[args |-> <<>>, kwargs |-> << <<"a", a>>, <<"b", b>> >>] : a \in AVals, b \in BVals}
    \cup {[args |-> <<>>, kwargs |-> << <<"b", b>>, <<"a", a>> >>] : a \in AVals, b \in BVals}

KwNames(call) == {call.kwargs[i][1] : i \in DOMAIN call.kwargs}
KwValue(call, p) ==
    LET i == CHOOSE j \in DOMAIN call.kwargs : call.kwargs[j][1] = p
    IN  call.kwargs[i][2]

\* inspect.Signature.bind: does the call fit the signature?  (TypeError if not)
BindOK(call) ==
    /\ Len(call.args) <= Len(ParamNames)
    /\ \A i \in DOMAIN ParamNames :
          LET p == ParamNames[i] IN
          /\ ~(i <= Len(call.args) /\ p \in KwNames(call))
          /\ (i > Len(call.args) /\ p \notin KwNames(call)) => HasDefault(p)
    /\ \A k \in KwNames(call) : \E i \in DOMAIN ParamNames : ParamNames[i] = k

\* the indices of the parameters the call supplies a value for
Supplied(call) ==
    {i \in DOMAIN ParamNames : i <= Len(call.args) \/ ParamNames[i] \in KwNames(call)}

RECURSIVE BoundFrom(_, _)
\* the (name, value) items of the parameters the call supplies, from the i-th
\* on, in signature order
BoundFrom(call, i) ==
    IF i > Len(ParamNames) THEN <<>>
    ELSE LET p == ParamNames[i]
             v == IF i <= Len(call.args) THEN call.args[i] ELSE KwValue(call, p)
         IN  (IF i \in Supplied(call) THEN << <<p, v>> >> ELSE <<>>)
                 \o BoundFrom(call, i + 1)

\* sig.bind(*args, **kwargs).arguments: only what the call supplied
BoundArguments(call) == BoundFrom(call, 1)

HasItem(arguments, p) == \E j \in DOMAIN arguments : arguments[j][1] = p
ParamValue(arguments, p) ==
    LET i == CHOOSE j \in DOMAIN arguments : arguments[j][1] = p IN arguments[i][2]

RECURSIVE WithDefaults(_, _)
WithDefaults(arguments, i) ==
    IF i > Len(ParamNames) THEN <<>>
    ELSE LET p == ParamNames[i]
         IN  (IF HasItem(arguments, p) THEN << <<p, ParamValue(arguments, p)>> >>
              ELSE IF HasDefault(p) THEN << <<p, DefaultOf(p)>> >>
              ELSE <<>>)
                 \o WithDefaults(arguments, i + 1)

\* bound.apply_defaults(): every parameter, the missing ones from their defaults
ApplyDefaultsNone(arguments) == arguments
ApplyDefaults(arguments) == WithDefaults(arguments, 1)

\* params = dict(bound.arguments), as its items in insertion order
Params(call) == ApplyDefaults(BoundArguments(call))

\* What a call means: the set of (name, value) pairs the signature gives it,
\* whatever syntax supplied them.
Mapping(call) ==
    {<<ParamNames[i],
       IF i <= Len(call.args) THEN call.args[i]
       ELSE IF ParamNames[i] \in KwNames(call) THEN KwValue(call, ParamNames[i])
       ELSE DefaultOf(ParamNames[i])>> : i \in DOMAIN ParamNames}

(***************************************************************************)
(* The default hash: str(sorted(params.items())).                          *)
(***************************************************************************)
Alphabet == <<"a", "b">>
NameRank(p) == CHOOSE i \in DOMAIN Alphabet : Alphabet[i] = p

RECURSIVE Insert(_, _)
Insert(item, sorted) ==
    IF sorted = <<>> THEN <<item>>
    ELSE IF NameRank(item[1]) <= NameRank(Head(sorted)[1]) THEN <<item>> \o sorted
    ELSE <<Head(sorted)>> \o Insert(item, Tail(sorted))

RECURSIVE SortedItems(_)
SortedItems(items) ==
    IF items = <<>> THEN <<>> ELSE Insert(Head(items), SortedItems(Tail(items)))

ItemStr(item) == "('" \o item[1] \o "', " \o Repr(item[2]) \o ")"

RECURSIVE JoinItems(_)
JoinItems(items) ==
    IF items = <<>> THEN ""
    ELSE IF Len(items) = 1 THEN ItemStr(items[1])
    ELSE ItemStr(items[1]) \o ", " \o JoinItems(Tail(items))

DefaultHash(params) == "[" \o JoinItems(SortedItems(params)) \o "]"

\* The hash configured at wrapping time: the default, None (replaced by a
\* constant function), or a function of the caller's that accepts ints only
\* (str(params['a']) after a type check) and raises on anything else.
HashKinds == {"default", "none", "strict"}
HashFn(kind, params) ==
    CASE kind = "default" -> [ok |-> TRUE, str |-> DefaultHash(params)]
      [] kind = "none" -> [ok |-> TRUE, str |-> ""]
      [] OTHER -> IF ParamValue(params, "a").ty = "int"
                  THEN [ok |-> TRUE, str |-> Repr(ParamValue(params, "a"))]
                  ELSE [ok |-> FALSE, str |-> ""]

\* hash_ = orig_func.__name__ + "__" + hash(params)
DeriveKey(fn, h) == fn \o "__" \o h

(***************************************************************************)
(* The wrapped functions' bodies and the objects they return.  An object   *)
(* the computation has just produced is `live`; shelve stores its pickle   *)
(* and hands back a reconstruction, which is not.                          *)
(***************************************************************************)
\* orig_func(**params): a parameter params lacks takes the function's default
ArgValue(params, p) ==
    IF HasItem(params, p) THEN ParamValue(params, p)
    ELSE DefaultOf(p)

ResultOf(w, params) ==
    LET a == ArgValue(params, "a")
        b == ArgValue(params, "b")
    IN  [ty |-> IF a.ty = "float" \/ b.ty = "float" THEN "float" ELSE "int",
         n |-> IF w = 1 THEN a.n * b.n ELSE a.n + b.n,
         live |-> TRUE]

Pickle(v) == [ty |-> v.ty, n |-> v.n]
Unpickle(p) == [ty |-> p.ty, n |-> p.n, live |-> FALSE]
NoObject == [ty |-> "none", n |-> 0, live |-> FALSE]

\* a dict / a shelf as a function from its keys
EmptyDict == [k \in {} |-> NoObject]
PutAlone(c, k, v) == [x \in {k} |-> v]
Put(c, k, v) == [x \in (DOMAIN c) \cup {k} |-> IF x = k THEN v ELSE c[x]]
\* the same, for the history variables
Noted(c, k, v) == [x \in (DOMAIN c) \cup {k} |-> IF x = k THEN v ELSE c[x]]

NoDb == "<None>"
DbPath == "cache.db"
Names == {"f", "g"}

VARIABLES
    fname,       \* orig_func.__name__ of each wrapped computation
    db,          \* the db argument of each wrapping: NoDb or a shelve path
    hashKind,    \* the hash argument of each wrapping
    stats,       \* stats of each wrapped computation
    info,        \* info of each wrapped computation
    mem_cache,   \* mem_cache of each wrapped computation
    disk,        \* the shelve database at DbPath: key -> pickled value
    openHandles, \* the shelf handles that are open
    nhandles,    \* how many shelf handles were ever opened
    closed,      \* the shelf handles that were closed
    pc,          \* where each caller is in `decorated`
    loc,         \* the locals of each caller's call (ofail, cfail: history,
                 \* whether shelve.open / orig_func raised in this call)
    invoked,     \* history: how often each orig_func was invoked
    ncalls,      \* history: calls started
    pre,         \* history: the shared state when each caller's call started
    seen,        \* history: per wrapped computation, mapping -> result returned
    lastDone,    \* history: the call that completed last, if its computation raised
    writer,      \* history: which wrapped computation wrote each disk entry
    served,      \* history: per backend and key, the values calls returned
    tally,       \* history: per wrapped computation without db, the calls that
                 \* derived a key and the calls whose computation raised
    written,     \* history: each caller's call as it was written
    firstCall    \* history: the first call that returned, as it was written

cfgvars == <<fname, db, hashKind>>
shared == <<stats, info, mem_cache, disk, openHandles, nhandles, closed>>
history == <<invoked, ncalls, pre, seen, lastDone, writer, served, tally>>
syntax == <<written, firstCall>>
vars == <<cfgvars, shared, pc, loc, history, syntax>>

NoHandle == [kind |-> "none", id |-> 0]
MemHandle == [kind |-> "mem", id |-> 0]
ShelfHandle(i) == [kind |-> "shelf", id |-> i]

NoLoc == [w |-> 0, mapping |-> {}, params |-> <<>>, key |-> "", cache |-> NoHandle,
          hit |-> FALSE, tmp |-> 0, res |-> NoObject, r |-> NoObject, exc |-> "",
          ofail |-> FALSE, cfail |-> FALSE]
NoPre == [stats |-> <<>>, info |-> <<>>, mem_cache |-> <<>>, disk |-> EmptyDict,
          invoked |-> <<>>, nhandles |-> 0, closed |-> {}]
NoDone == [w |-> 0, mapping |-> {}]
NoCall == [args |-> <<>>, kwargs |-> <<>>]
NoFirst == [w |-> 0, call |-> NoCall, key |-> ""]

\* the backend a wrapped computation uses: 0 is the shelve database
BackendOf(w) == IF db[w] = NoDb THEN w ELSE 0
Backends == {0} \cup Wrapped

\* what a handle's backend holds, as the caller reads it
Content(w, h) == IF h.kind = "mem" THEN mem_cache[w]
                 ELSE [k \in DOMAIN disk |-> Unpickle(disk[k])]

Init ==
    /\ fname \in {f \in [Wrapped -> Names] : f[1] = "f"}
    /\ db \in {d \in [Wrapped -> {NoDb, DbPath}] : d[2] = DbPath => d[1] = DbPath}
    /\ hashKind \in {[w \in Wrapped |-> k] : k \in HashKinds}
    /\ stats = [w \in Wrapped |-> [cached |-> 0, computed |-> 0]]
    /\ info = [w \in Wrapped |-> [k \in {} |-> ""]]
    /\ mem_cache = [w \in Wrapped |-> EmptyDict]
    /\ disk = [k \in {} |-> Pickle(NoObject)]
    /\ openHandles = {}
    /\ nhandles = 0
    /\ closed = {}
    /\ pc = [t \in Threads |-> "idle"]
    /\ loc = [t \in Threads |-> NoLoc]
    /\ invoked = [w \in Wrapped |-> 0]
    /\ ncalls = 0
    /\ pre = [t \in Threads |-> NoPre]
    /\ seen = [w \in Wrapped |-> [p \in {} |-> NoObject]]
    /\ lastDone = NoDone
    /\ writer = [k \in {} |-> 0]
    /\ served = [b \in Backends |-> [k \in {} |-> {}]]
    /\ tally = [w \in Wrapped |-> [derived |-> 0, failed |-> 0]]
    /\ written = [t \in Threads |-> NoCall]
    /\ firstCall = NoFirst

Snapshot == [stats |-> stats, info |-> info, mem_cache |-> mem_cache, disk |-> disk,
             invoked |-> invoked, nhandles |-> nhandles, closed |-> closed]

\* lines 51-52: info["last_hash"] = hash_, reached only when hash() returned
InfoAfterDeriveFirst(i, fn, h) ==
    IF h.ok /\ DOMAIN i = {} THEN [k \in {"last_hash"} |-> DeriveKey(fn, h.str)] ELSE i
InfoAfterDeriveEarly(i, fn, h) == [k \in {"last_hash"} |-> DeriveKey(fn, h.str)]
InfoAfterDerive(i, fn, h) ==
    IF h.ok THEN [k \in {"last_hash"} |-> DeriveKey(fn, h.str)] ELSE i

\* lines 46-52: bind the arguments, derive the key, record it
Invoke(t, w, call) ==
    /\ pc[t] = "idle"
    /\ ncalls < MaxCalls
    /\ ncalls' = ncalls + 1
    /\ pre' = [pre EXCEPT ![t] = Snapshot]
    /\ IF ~BindOK(call)
       THEN /\ pc' = [pc EXCEPT ![t] = "raised"]
            /\ loc' = [loc EXCEPT ![t] = [NoLoc EXCEPT !.w = w,
                                                      !.exc = "TypeError"]]
            /\ info' = info
       ELSE LET params == Params(call)
                h == HashFn(hashKind[w], params)
            IN  /\ info' = [info EXCEPT ![w] = InfoAfterDerive(info[w], fname[w], h)]
                /\ IF h.ok
                   THEN /\ pc' = [pc EXCEPT ![t] = "open"]
                        /\ loc' = [loc EXCEPT ![t] =
                               [NoLoc EXCEPT !.w = w, !.mapping = Mapping(call), !.params = params,
                                             !.key = DeriveKey(fname[w], h.str)]]
                   ELSE /\ pc' = [pc EXCEPT ![t] = "raised"]
                        /\ loc' = [loc EXCEPT ![t] =
                               [NoLoc EXCEPT !.w = w, !.mapping = Mapping(call), !.params = params,
                                             !.exc = "KeyDerivationError"]]
    /\ tally' = IF db[w] = NoDb /\ BindOK(call) /\ HashFn(hashKind[w], Params(call)).ok
                THEN [tally EXCEPT ![w].derived = @ + 1]
                ELSE tally
    /\ UNCHANGED <<cfgvars, stats, mem_cache, disk, openHandles, nhandles, closed>>
    /\ UNCHANGED <<invoked, seen, lastDone, writer, served>>

Call(t, w, call) == Invoke(t, w, call) /\ UNCHANGED syntax

\* the same call, with the history of how it was written
WrittenCall(t, call) ==
    /\ Invoke(t, 1, call)
    /\ written' = [written EXCEPT ![t] = call]
    /\ UNCHANGED firstCall

\* line 54, when shelve.open raises: the exception leaves `decorated` at once
\* (the try block has not been entered)
OpenFailedFallback(l) == [pc |-> "check", loc |-> [l EXCEPT !.cache = MemHandle]]
OpenFailed(l) ==
    [pc |-> "raised", loc |-> [l EXCEPT !.exc = "BackendUnavailableError"]]

\* line 54: _cache = shelve.open(db) if db is not None else mem_cache
Open(t, fails) ==
    /\ pc[t] = "open"
    /\ LET w == loc[t].w IN
       IF db[w] = NoDb
       THEN /\ ~fails
            /\ pc' = [pc EXCEPT ![t] = "check"]
            /\ loc' = [loc EXCEPT ![t].cache = MemHandle]
            /\ UNCHANGED <<openHandles, nhandles>>
       ELSE IF fails
       THEN /\ pc' = [pc EXCEPT ![t] = OpenFailed(loc[t]).pc]
            /\ loc' = [loc EXCEPT ![t] = [OpenFailed(loc[t]).loc EXCEPT !.ofail = TRUE]]
            /\ UNCHANGED <<openHandles, nhandles>>
       ELSE /\ nhandles' = nhandles + 1
            /\ openHandles' = openHandles \cup {nhandles + 1}
            /\ pc' = [pc EXCEPT ![t] = "check"]
            /\ loc' = [loc EXCEPT ![t].cache = ShelfHandle(nhandles + 1)]
    /\ UNCHANGED <<cfgvars, stats, info, mem_cache, disk, closed, history>>
    /\ UNCHANGED syntax

\* line 56: hash_ in _cache
ContainsNever(c, k) == FALSE
Contains(c, k) == k \in DOMAIN c

Check(t) ==
    /\ pc[t] = "check"
    /\ loc' = [loc EXCEPT ![t].hit = Contains(Content(loc[t].w, loc[t].cache), loc[t].key)]
    /\ pc' = [pc EXCEPT ![t] = "inc_load"]
    /\ UNCHANGED <<cfgvars, shared, history>>
    /\ UNCHANGED syntax

\* lines 57 and 59: the counter a branch increments
CounterOfSwapped(hit) == IF hit THEN "computed" ELSE "cached"
CounterOf(hit) == IF hit THEN "cached" ELSE "computed"

\* lines 57 and 59: += 1
PlusOneTwice(n) == n + 2
PlusOne(n) == n + 1

\* lines 57 and 59, first half of +=: read the counter
IncLoad(t) ==
    /\ pc[t] = "inc_load"
    /\ loc' = [loc EXCEPT ![t].tmp = stats[loc[t].w][CounterOf(loc[t].hit)]]
    /\ pc' = [pc EXCEPT ![t] = "inc_store"]
    /\ UNCHANGED <<cfgvars, shared, history>>
    /\ UNCHANGED syntax

\* lines 40, 57 and 59: the stats dict written is the wrapping's own
StoreCounterShared(s, w, c, n) == [v \in DOMAIN s |-> [s[v] EXCEPT ![c] = n]]
StoreCounter(s, w, c, n) == [s EXCEPT ![w][c] = n]

\* lines 57 and 59, second half of +=: write the counter back
IncStore(t) ==
    /\ pc[t] = "inc_store"
    /\ stats' = StoreCounter(stats, loc[t].w, CounterOf(loc[t].hit), PlusOne(loc[t].tmp))
    /\ pc' = [pc EXCEPT ![t] = IF loc[t].hit THEN "get" ELSE "compute"]
    /\ UNCHANGED <<cfgvars, info, mem_cache, disk, openHandles, nhandles, closed>>
    /\ UNCHANGED <<loc, history>>
    /\ UNCHANGED syntax

\* try/finally, lines 55-65: where control goes when the body raises
OnRaiseNoFinally(l, e) == [pc |-> "raised", loc |-> [l EXCEPT !.exc = e]]
OnRaiseStoreNone(l, e) == [pc |-> "set", loc |-> l]
OnRaise(l, e) == [pc |-> "close", loc |-> [l EXCEPT !.exc = e]]

\* two callers of the same wrapped computation hold the same key
SameKey(t, u) ==
    /\ t # u
    /\ loc[t].w # 0 /\ loc[t].w = loc[u].w
    /\ loc[t].key # "" /\ loc[t].key = loc[u].key

\* the invocation as it would be under a per-key lock
ComputeLocked(t, fails) ==
    /\ pc[t] = "compute"
    /\ \A u \in Threads : SameKey(t, u) => pc[u] # "set"
    /\ invoked' = [invoked EXCEPT ![loc[t].w] = @ + 1]
    /\ IF fails
       THEN /\ pc' = [pc EXCEPT ![t] = "close"]
            /\ loc' = [loc EXCEPT ![t].exc = "ComputationError", ![t].cfail = TRUE]
       ELSE /\ pc' = [pc EXCEPT ![t] = "set"]
            /\ loc' = [loc EXCEPT ![t].res = ResultOf(loc[t].w, loc[t].params)]
    /\ tally' = IF fails /\ db[loc[t].w] = NoDb
                THEN [tally EXCEPT ![loc[t].w].failed = @ + 1]
                ELSE tally
    /\ UNCHANGED <<cfgvars, shared, ncalls, pre, seen, lastDone, writer, served>>
    /\ UNCHANGED syntax

\* line 60, right-hand side: orig_func(**params); it returns or it raises
Compute(t, fails) ==
    /\ pc[t] = "compute"
    /\ invoked' = [invoked EXCEPT ![loc[t].w] = @ + 1]
    /\ IF fails
       THEN /\ pc' = [pc EXCEPT ![t] = OnRaise(loc[t], "ComputationError").pc]
            /\ loc' = [loc EXCEPT ![t] =
                   [OnRaise(loc[t], "ComputationError").loc EXCEPT !.cfail = TRUE]]
       ELSE /\ pc' = [pc EXCEPT ![t] = "set"]
            /\ loc' = [loc EXCEPT ![t].res = ResultOf(loc[t].w, loc[t].params)]
    /\ tally' = IF fails /\ db[loc[t].w] = NoDb
                THEN [tally EXCEPT ![loc[t].w].failed = @ + 1]
                ELSE tally
    /\ UNCHANGED <<cfgvars, shared, ncalls, pre, seen, lastDone, writer, served>>
    /\ UNCHANGED syntax

\* line 60, the assignment: _cache[hash_] = <result>
Set(t) ==
    /\ pc[t] = "set"
    /\ IF loc[t].cache.kind = "mem"
       THEN /\ mem_cache' = [mem_cache EXCEPT ![loc[t].w] = Put(@, loc[t].key, loc[t].res)]
            /\ UNCHANGED <<disk, writer>>
       ELSE /\ disk' = Put(disk, loc[t].key, Pickle(loc[t].res))
            /\ writer' = Noted(writer, loc[t].key, loc[t].w)
            /\ UNCHANGED mem_cache
    /\ pc' = [pc EXCEPT ![t] = "get"]
    /\ UNCHANGED <<cfgvars, stats, info, openHandles, nhandles, closed>>
    /\ UNCHANGED <<loc, invoked, ncalls, pre, seen, lastDone, served, tally>>
    /\ UNCHANGED syntax

\* line 62: what r is bound to
ReadBackFresh(l, c) == IF l.hit THEN c[l.key] ELSE l.res
ReadBack(l, c) == c[l.key]

\* line 62: r = _cache[hash_]
Get(t) ==
    /\ pc[t] = "get"
    /\ LET c == Content(loc[t].w, loc[t].cache) IN
       IF loc[t].key \in DOMAIN c
       THEN /\ loc' = [loc EXCEPT ![t].r = ReadBack(loc[t], c)]
            /\ pc' = [pc EXCEPT ![t] = "close"]
       ELSE /\ pc' = [pc EXCEPT ![t] = OnRaise(loc[t], "KeyError").pc]
            /\ loc' = [loc EXCEPT ![t] = OnRaise(loc[t], "KeyError").loc]
    /\ UNCHANGED <<cfgvars, shared, history>>
    /\ UNCHANGED syntax

\* lines 63-66: the finally block, then return r or let the exception go on
Close(t) ==
    /\ pc[t] = "close"
    /\ IF loc[t].cache.kind = "shelf"
       THEN /\ openHandles' = openHandles \ {loc[t].cache.id}
            /\ closed' = closed \cup {loc[t].cache.id}
       ELSE UNCHANGED <<openHandles, closed>>
    /\ pc' = [pc EXCEPT ![t] = IF loc[t].exc = "" THEN "returned" ELSE "raised"]
    /\ UNCHANGED <<cfgvars, stats, info, mem_cache, disk, nhandles, loc, history>>
    /\ UNCHANGED syntax

\* the caller has the result (or the exception) and is free to call again
Leave(t) ==
    /\ pc[t] \in {"returned", "raised"}
    /\ pc' = [pc EXCEPT ![t] = "idle"]
    /\ loc' = [loc EXCEPT ![t] = NoLoc]
    /\ pre' = [pre EXCEPT ![t] = NoPre]
    /\ lastDone' = IF loc[t].exc = "ComputationError"
                   THEN [w |-> loc[t].w, mapping |-> loc[t].mapping]
                   ELSE NoDone
    /\ IF pc[t] = "returned"
       THEN LET b == BackendOf(loc[t].w)
                k == loc[t].key
                old == IF k \in DOMAIN served[b] THEN served[b][k] ELSE {}
            IN  /\ seen' = [seen EXCEPT ![loc[t].w] = Noted(@, loc[t].mapping, loc[t].r)]
                /\ served' = [served EXCEPT ![b] = Noted(@, k, old \cup {loc[t].r})]
       ELSE UNCHANGED <<seen, served>>
    /\ UNCHANGED <<cfgvars, shared, invoked, ncalls, writer, tally>>

Finish(t) == Leave(t) /\ UNCHANGED syntax

\* the same, with the history of how the first returned call was written
WrittenFinish(t) ==
    /\ Leave(t)
    /\ written' = [written EXCEPT ![t] = NoCall]
    /\ firstCall' = IF pc[t] = "returned" /\ firstCall = NoFirst
                    THEN [w |-> loc[t].w, call |-> written[t], key |-> loc[t].key]
                    ELSE firstCall

Body(t) ==
    \/ \E fails \in BOOLEAN : Open(t, fails)
    \/ Check(t)
    \/ IncLoad(t)
    \/ IncStore(t)
    \/ \E fails \in BOOLEAN : Compute(t, fails)
    \/ Set(t)
    \/ Get(t)
    \/ Close(t)

\* Sequential use: one caller, so a call starts only when the last one is over.
SeqNext ==
    \/ \E t \in SeqThreads, w \in Wrapped, call \in Calls : Call(t, w, call)
    \/ \E t \in SeqThreads : Body(t)
    \/ \E t \in SeqThreads : Finish(t)

Spec == Init /\ [][SeqNext]_vars

\* Concurrent use: callers on parallel threads call the first wrapped
\* computation (default hash, on the shelve database or on its own dict),
\* interleaved at every step.
ConcInit ==
    /\ Init
    /\ hashKind = [w \in Wrapped |-> "default"]
    /\ fname = <<"f", "g">>
    /\ db[1] = db[2]

\* the calls concurrent callers make: the doctest's x(1) and x(2)
ConcCalls == {[args |-> <<a>>, kwargs |-> <<>>] : a \in {PyInt(1), PyInt(2)}}

ConcCall(t, w, call) == ncalls < MaxConcCalls /\ Call(t, w, call)

\* line 66 and after: the caller is free to call again (the per-call history
\* is dropped, the history across calls is not recorded here)
ConcFinish(t) ==
    /\ pc[t] \in {"returned", "raised"}
    /\ pc' = [pc EXCEPT ![t] = "idle"]
    /\ loc' = [loc EXCEPT ![t] = NoLoc]
    /\ pre' = [pre EXCEPT ![t] = NoPre]
    /\ UNCHANGED <<cfgvars, shared, invoked, ncalls, seen, lastDone, writer, served, tally>>
    /\ UNCHANGED syntax

ConcNext ==
    \/ \E t \in Threads, call \in ConcCalls : ConcCall(t, 1, call)
    \/ \E t \in Threads : Body(t)
    \/ \E t \in Threads : ConcFinish(t)

ConcSpec == ConcInit /\ [][ConcNext]_vars

\* Sequential calls of the doctest's wrapped computation (default hash), with
\* the history of how each call was written.
SyntaxInit ==
    /\ Init
    /\ hashKind = [w \in Wrapped |-> "default"]
    /\ fname = <<"f", "g">>
    /\ db[2] = NoDb

SyntaxNext ==
    \/ \E t \in SeqThreads, call \in Calls : WrittenCall(t, call)
    \/ \E t \in SeqThreads : Body(t)
    \/ \E t \in SeqThreads : WrittenFinish(t)

SyntaxSpec == SyntaxInit /\ [][SyntaxNext]_vars

(***************************************************************************)
(* Properties.                                                             *)
(***************************************************************************)
Done(t) == pc[t] \in {"returned", "raised"}
InBody(t) == pc[t] \in {"check", "inc_load", "inc_store", "compute", "set", "get", "close"}
PastCheck(t) == pc[t] \in {"inc_load", "inc_store", "compute", "set", "get", "close"}
                   \/ (Done(t) /\ loc[t].cache.kind # "none")
\* the raw entries of a wrapped computation's backend, now and in a snapshot
StoreNow(w) == IF db[w] = NoDb THEN mem_cache[w] ELSE disk
StoreAt(p, w) == IF db[w] = NoDb THEN p.mem_cache[w] ELSE p.disk
Quiet == \A t \in Threads : pc[t] \in {"idle", "returned", "raised"}

\* C1: a returned call whose key was absent when it started added 1 to
\* computed, 0 to cached and invoked the computation once; a returned call
\* whose parameters an earlier returned call of the same wrapped computation
\* had (immediately before, or with other calls in between) added 1 to
\* cached, 0 to computed, did not invoke the computation and returned the
\* earlier call's result.
C1_MissThenHit ==
    \A t \in Threads : pc[t] = "returned" =>
        LET w == loc[t].w
            p == pre[t]
        IN  /\ loc[t].key \notin DOMAIN StoreAt(p, w) =>
                 /\ stats[w].computed = p.stats[w].computed + 1
                 /\ stats[w].cached = p.stats[w].cached
                 /\ invoked[w] = p.invoked[w] + 1
            /\ loc[t].mapping \in DOMAIN seen[w] =>
                 /\ stats[w].cached = p.stats[w].cached + 1
                 /\ stats[w].computed = p.stats[w].computed
                 /\ invoked[w] = p.invoked[w]
                 /\ loc[t].r = seen[w][loc[t].mapping]

\* the doctest: f(1), f(2), f(1) has returned 2 with cached = 1, computed = 2
C1_Witness ==
    \E t \in Threads :
        /\ pc[t] = "returned" /\ loc[t].w = 1 /\ hashKind[1] = "default"
        /\ loc[t].mapping = {<<"a", PyInt(1)>>, <<"b", PyInt(2)>>}
        /\ loc[t].mapping \in DOMAIN seen[1]
        /\ loc[t].r.n = 2
        /\ stats[1] = [cached |-> 1, computed |-> 2]
        /\ invoked[1] = 2

\* C2: with a shelve backend a call that got its handle has closed that very
\* handle when it returns or raises, the handle was opened for this call
\* alone, it stays open for as long as the body uses it, and between calls no
\* handle is open: as many were closed as were opened.
C2_Release ==
    /\ \A t \in Threads :
          /\ (Done(t) /\ loc[t].cache.kind = "shelf") =>
                /\ loc[t].cache.id \in closed
                /\ loc[t].cache.id \notin openHandles
                /\ loc[t].cache.id \notin pre[t].closed
                /\ loc[t].cache.id = pre[t].nhandles + 1
                /\ nhandles = pre[t].nhandles + 1
          /\ (Done(t) /\ db[loc[t].w] # NoDb /\ loc[t].key # "" /\ ~loc[t].ofail) =>
                loc[t].cache.kind = "shelf"
          /\ (InBody(t) /\ db[loc[t].w] # NoDb) =>
                /\ loc[t].cache.kind = "shelf"
                /\ loc[t].cache.id \in openHandles
                /\ loc[t].cache.id \notin closed
          /\ loc[t].cfail /\ db[loc[t].w] # NoDb /\ pc[t] = "raised" =>
                loc[t].cache.id \in closed
    /\ Quiet => (openHandles = {} /\ closed = 1 .. nhandles)

\* a call on a shelve backend whose computation raised has raised, after an
\* earlier call had already opened and closed a handle of its own
C2_Witness ==
    \E t \in Threads :
        /\ pc[t] = "raised" /\ loc[t].cfail
        /\ loc[t].cache = ShelfHandle(2)
        /\ closed = {1, 2} /\ openHandles = {}

\* C3: when the computation raises on a miss, the call raises that failure,
\* the backend holds exactly what it held when the call started and nothing
\* under the call's key; the next call with the same parameters is a miss
\* again and invokes the computation again.
C3_FailedComputation ==
    \A t \in Threads :
        LET w == loc[t].w IN
        /\ loc[t].cfail =>
              /\ pc[t] \in {"close", "raised"}
              /\ loc[t].exc = "ComputationError"
              /\ ~loc[t].hit
              /\ mem_cache = pre[t].mem_cache
              /\ disk = pre[t].disk
              /\ loc[t].key \notin DOMAIN StoreNow(w)
              /\ invoked[w] = pre[t].invoked[w] + 1
        /\ (PastCheck(t) /\ lastDone = [w |-> w, mapping |-> loc[t].mapping]) =>
              /\ ~loc[t].hit
              /\ Done(t) => invoked[w] = pre[t].invoked[w] + 1

\* the call after a failed one, with the same parameters, has computed again
C3_Witness ==
    \E t \in Threads :
        /\ pc[t] = "returned" /\ ~loc[t].hit
        /\ lastDone = [w |-> loc[t].w, mapping |-> loc[t].mapping]
        /\ invoked[loc[t].w] = 2
        /\ stats[loc[t].w].computed = 2

\* the call failed before the try block: binding, key derivation or open
FailedEarly(t) == loc[t].cache.kind = "none"

CountersStep ==
    \A w \in Wrapped :
        /\ stats'[w].cached >= stats[w].cached
        /\ stats'[w].computed >= stats[w].computed
        /\ (stats'[w].cached - stats[w].cached)
              + (stats'[w].computed - stats[w].computed) <= 1

CountersPerCall ==
    \A t \in Threads : Done(t) =>
        LET w == loc[t].w
            dc == stats[w].cached - pre[t].stats[w].cached
            dp == stats[w].computed - pre[t].stats[w].computed
        IN  /\ \A v \in Wrapped \ {w} : stats[v] = pre[t].stats[v]
            /\ IF FailedEarly(t)
               THEN dc = 0 /\ dp = 0
               ELSE /\ {dc, dp} = {0, 1}
                    /\ dc = 1 <=> loc[t].hit
            /\ loc[t].key # "" =>
                  info[w] = [k \in {"last_hash"} |-> loc[t].key]
            /\ loc[t].key = "" => info[w] = pre[t].info[w]

\* C4 (amended): no step lowers a counter or adds more than 1 in all; a call
\* that entered the try block has, when it returns or raises, added 1 to
\* exactly one counter of its wrapped computation (cached on a hit, computed
\* on a miss, also when the computation raised); a call that failed before
\* (binding, key derivation, opening the store) has added nothing; info is
\* written once, by every call whose key derivation succeeded.
C4_Counters == [][CountersStep]_vars /\ []CountersPerCall

\* a call whose computation raised has counted computed, after a hit
C4_Witness ==
    \E t \in Threads :
        /\ pc[t] = "raised" /\ loc[t].cfail
        /\ stats[loc[t].w].computed = pre[t].stats[loc[t].w].computed + 1
        /\ stats[loc[t].w].cached = 1

\* C4 as claimed: every call with well-formed arguments, whatever its
\* outcome, has added 1 to exactly one of the counters.
C4_Original ==
    \A t \in Threads : (Done(t) /\ loc[t].exc # "TypeError") =>
        LET w == loc[t].w IN
        (stats[w].cached + stats[w].computed)
            = (pre[t].stats[w].cached + pre[t].stats[w].computed) + 1

\* C5: what a call returns is the entry read from the backend under its key;
\* on a shelve backend that is the reconstruction, never the object the
\* computation produced; every value returned for a key of a backend, by the
\* miss and by all later hits, is the same.
C5_ReadAfterWrite ==
    /\ \A t \in Threads : pc[t] = "returned" =>
          LET b == BackendOf(loc[t].w)
              k == loc[t].key
          IN  /\ k \in DOMAIN Content(loc[t].w, loc[t].cache)
              /\ loc[t].r = Content(loc[t].w, loc[t].cache)[k]
              /\ loc[t].cache.kind = "shelf" => ~loc[t].r.live
              /\ k \in DOMAIN served[b] => loc[t].r \in served[b][k]
    /\ \A b \in Backends : \A k \in DOMAIN served[b] : Cardinality(served[b][k]) = 1

\* a miss on the shelve backend has returned the reconstruction, which is not
\* the object it computed, after another call was served from the backend
C5_Witness ==
    \E t \in Threads :
        /\ pc[t] = "returned" /\ ~loc[t].hit /\ loc[t].cache.kind = "shelf"
        /\ loc[t].res.live /\ loc[t].r # loc[t].res
        /\ DOMAIN served[0] # {}

EntriesKept ==
    /\ \A k \in DOMAIN disk : k \in DOMAIN disk' /\ disk'[k] = disk[k]
    /\ \A w \in Wrapped : \A k \in DOMAIN mem_cache[w] :
          k \in DOMAIN mem_cache'[w] /\ mem_cache'[w][k] = mem_cache[w][k]

SetOnlyWhenAbsent ==
    \A t \in Threads : pc[t] = "set" => loc[t].key \notin DOMAIN StoreNow(loc[t].w)

\* C6: no step removes an entry of a backend or changes the value stored
\* under a key, and a call is about to set only a key that is absent.
C6_WriteOnce == [][EntriesKept]_vars /\ []SetOnlyWhenAbsent

\* a call has just written a second entry beside an older one, which a third
\* call had read in between
C6_Witness ==
    \E t \in Threads :
        /\ pc[t] = "get" /\ ~loc[t].hit
        /\ Cardinality(DOMAIN StoreNow(loc[t].w)) = 2
        /\ stats[loc[t].w].cached = 1

\* C7 as claimed (here for the default hash): a call served as a hit from the
\* shared shelve database reads an entry that a call of the same wrapped
\* computation wrote.
C7_NoCollision ==
    \A t \in Threads :
        (/\ pc[t] = "returned" /\ loc[t].hit /\ loc[t].cache.kind = "shelf"
         /\ hashKind = [w \in Wrapped |-> "default"]) =>
            writer[loc[t].key] = loc[t].w

\* C9: a call whose hash function raised has raised that failure and left the
\* backends, the handles, the invocation counts, stats and info as they were
\* when it started; it holds no handle.
C9_HashFailure ==
    \A t \in Threads :
        (loc[t].exc = "KeyDerivationError") =>
            /\ pc[t] = "raised"
            /\ mem_cache = pre[t].mem_cache
            /\ disk = pre[t].disk
            /\ nhandles = pre[t].nhandles
            /\ closed = pre[t].closed
            /\ openHandles = {}
            /\ loc[t].cache = NoHandle
            /\ invoked = pre[t].invoked
            /\ stats = pre[t].stats
            /\ info = pre[t].info

\* the hash function has raised in a call that followed a successful one
C9_Witness ==
    \E t \in Threads :
        /\ pc[t] = "raised" /\ loc[t].exc = "KeyDerivationError"
        /\ DOMAIN info[loc[t].w] = {"last_hash"}
        /\ stats[loc[t].w].computed = 1
        /\ StoreNow(loc[t].w) # EmptyDict

\* C10: a call whose shelve.open raised has raised that failure at once: the
\* computation was not invoked, the counters and the backends are as they
\* were when it started, no handle was counted opened, and nothing was closed.
C10_OpenFailure ==
    \A t \in Threads :
        loc[t].ofail =>
            /\ pc[t] = "raised"
            /\ loc[t].exc = "BackendUnavailableError"
            /\ loc[t].cache = NoHandle
            /\ invoked = pre[t].invoked
            /\ stats = pre[t].stats
            /\ disk = pre[t].disk
            /\ mem_cache = pre[t].mem_cache
            /\ nhandles = pre[t].nhandles
            /\ closed = pre[t].closed
            /\ openHandles = {}

\* the store could not be opened for a call whose key it already holds
C10_Witness ==
    \E t \in Threads :
        /\ pc[t] = "raised" /\ loc[t].ofail
        /\ loc[t].key \in DOMAIN disk
        /\ closed = {1}

\* two mappings with the same names and values of the same text
SameText(m1, m2) ==
    {<<p[1], Repr(p[2])>> : p \in m1} = {<<p[1], Repr(p[2])>> : p \in m2}
\* two mappings equal as Python sets of (name, value) pairs
EqualPairs(m1, m2) ==
    /\ \A p \in m1 : \E q \in m2 : p[1] = q[1] /\ PyEq(p[2], q[2])
    /\ \A q \in m2 : \E p \in m1 : p[1] = q[1] /\ PyEq(p[2], q[2])

\* C8 (amended): with the default hash, a call whose bound parameter mapping
\* has the names and the value texts of the first returned call's mapping
\* derives that call's key, however either call was written (positionally,
\* by keyword in either order, by default), and is a hit.
C8_KeyDeterminism ==
    \A t \in Threads :
        (/\ pc[t] # "idle" /\ loc[t].key # ""
         /\ firstCall # NoFirst /\ firstCall.w = loc[t].w
         /\ hashKind[loc[t].w] = "default"
         /\ SameText(Mapping(written[t]), Mapping(firstCall.call))) =>
            /\ loc[t].key = firstCall.key
            /\ PastCheck(t) => loc[t].hit

\* f(1) returned first; f(b=2, a=1) was then served as a hit
C8_Witness ==
    \E t \in Threads :
        /\ pc[t] = "returned" /\ loc[t].hit
        /\ firstCall.call = [args |-> <<PyInt(1)>>, kwargs |-> <<>>]
        /\ written[t] = [args |-> <<>>,
                         kwargs |-> << <<"b", PyInt(2)>>, <<"a", PyInt(1)>> >>]
        /\ loc[t].key = "f__[('a', 1), ('b', 2)]"

\* C8 as claimed: with the default hash, a call whose bound parameter mapping
\* equals the first returned call's as a set of (name, value) pairs derives
\* that call's key and is a hit.
C8_Original ==
    \A t \in Threads :
        (/\ PastCheck(t)
         /\ firstCall # NoFirst /\ firstCall.w = loc[t].w
         /\ hashKind[loc[t].w] = "default"
         /\ EqualPairs(Mapping(written[t]), Mapping(firstCall.call))) =>
            /\ loc[t].key = firstCall.key
            /\ loc[t].hit

\* a caller inside `decorated`, between the key derivation and the return
Inside(t) == pc[t] = "open" \/ InBody(t)

\* the caller observed a miss and has written its result to the backend
WroteAfterMiss(t) ==
    /\ pc[t] \in {"get", "close", "returned"}
    /\ ~loc[t].hit /\ ~loc[t].cfail

\* the smaller of two numbers
Min(a, b) == IF a <= b THEN a ELSE b

\* C11: nothing makes one caller wait for another or look at the backend
\* again: whatever the other callers are doing, a caller inside the call has a
\* next step it can take, and a caller at the invocation or at the write has
\* observed a miss; so when two concurrent callers of one wrapped computation
\* with one key have both observed a miss and both are past the write, the
\* computation was invoked for each of them (twice since the earlier of them
\* started) and the key is in the backend.
C11_DuplicateComputation ==
    \A t \in Threads :
        /\ Inside(t) => ENABLED Body(t)
        /\ pc[t] \in {"compute", "set"} => ~loc[t].hit
        /\ \A u \in Threads :
              (SameKey(t, u) /\ WroteAfterMiss(t) /\ WroteAfterMiss(u)) =>
                  LET w == loc[t].w IN
                  /\ invoked[w] >= Min(pre[t].invoked[w], pre[u].invoked[w]) + 2
                  /\ loc[t].key \in DOMAIN StoreNow(w)

\* two concurrent calls with one key, on a backend that was empty when each
\* started, have both returned after a miss; the computation ran twice
C11_Witness ==
    \E t, u \in Threads :
        /\ SameKey(t, u) /\ WroteAfterMiss(t) /\ WroteAfterMiss(u)
        /\ pc[t] = "returned" /\ pc[u] = "returned"
        /\ StoreAt(pre[t], loc[t].w) = EmptyDict
        /\ StoreAt(pre[u], loc[u].w) = EmptyDict
        /\ pre[t].invoked[loc[t].w] = 0 /\ pre[u].invoked[loc[u].w] = 0
        /\ invoked[loc[t].w] = 2
        /\ DOMAIN StoreNow(loc[t].w) = {loc[t].key}

\* C13: whenever a caller is at the read of line 62, after a hit or after its
\* own write, its key is in the backend it reads, whatever the other callers
\* have done in between; no caller ever holds a missing-entry error.
C13_ReadNeverMisses ==
    \A t \in Threads :
        /\ pc[t] = "get" => loc[t].key \in DOMAIN Content(loc[t].w, loc[t].cache)
        /\ loc[t].exc # "KeyError"

\* a caller that wrote its key is at the read while another caller, which
\* started on the same backend when it was empty, has written another key
C13_Witness ==
    \E t, u \in Threads :
        /\ t # u
        /\ pc[t] = "get" /\ ~loc[t].hit
        /\ pc[u] \in {"get", "close"} /\ ~loc[u].hit /\ ~loc[u].cfail
        /\ loc[t].w = loc[u].w
        /\ loc[u].key # loc[t].key
        /\ StoreAt(pre[t], loc[t].w) = EmptyDict
        /\ StoreAt(pre[u], loc[u].w) = EmptyDict
        /\ DOMAIN StoreNow(loc[t].w) = {loc[t].key, loc[u].key}

\* C12 as claimed: with hash=None, a returned call of a wrapped computation
\* none of whose calls returned before has computed and stored; every later
\* returned call is a hit, did not invoke the computation and returned what
\* the first call returned; the computation has at most one entry in its
\* backend, under its one key.
C12_SingleEntry ==
    \A t \in Threads :
        (pc[t] = "returned" /\ hashKind[loc[t].w] = "none") =>
            LET w == loc[t].w IN
            /\ loc[t].key = DeriveKey(fname[w], "")
            /\ IF seen[w] = [p \in {} |-> NoObject]
               THEN /\ ~loc[t].hit
                    /\ invoked[w] = pre[t].invoked[w] + 1
                    /\ loc[t].key \notin DOMAIN StoreAt(pre[t], w)
               ELSE /\ loc[t].hit
                    /\ invoked[w] = pre[t].invoked[w]
                    /\ \A m \in DOMAIN seen[w] : PyEq(seen[w][m], loc[t].r)
            /\ db[w] = NoDb => Cardinality(DOMAIN mem_cache[w]) <= 1
            /\ db[w] # NoDb =>
                  Cardinality({k \in DOMAIN disk : writer[k] = w}) <= 1

\* C14: info holds nothing but last_hash; from the moment a call has derived
\* its key (before its backend is opened: no handle is open or was counted
\* for it yet) until the next call, also when it has returned or raised from
\* the computation, last_hash is that call's key, whatever it was before; a
\* call that derived no key left info as it was; and hit or miss is decided
\* by whether the key was in the backend when the call started, not by
\* last_hash.
C14_LastHash ==
    /\ \A w \in Wrapped : DOMAIN info[w] \subseteq {"last_hash"}
    /\ \A t \in Threads : pc[t] # "idle" =>
          LET w == loc[t].w IN
          /\ loc[t].key # "" =>
                /\ loc[t].key = DeriveKey(fname[w], HashFn(hashKind[w], loc[t].params).str)
                /\ info[w] = [k \in {"last_hash"} |-> loc[t].key]
          /\ loc[t].key = "" => info[w] = pre[t].info[w]
          /\ pc[t] = "open" =>
                /\ loc[t].cache = NoHandle
                /\ nhandles = pre[t].nhandles /\ openHandles = {}
          /\ PastCheck(t) =>
                (loc[t].hit <=> loc[t].key \in DOMAIN StoreAt(pre[t], w))

\* a call whose computation raised has replaced the last_hash of the call
\* before it, which had another key, by its own
C14_Witness ==
    \E t \in Threads :
        /\ pc[t] = "raised" /\ loc[t].cfail
        /\ DOMAIN pre[t].info[loc[t].w] = {"last_hash"}
        /\ pre[t].info[loc[t].w]["last_hash"] # loc[t].key
        /\ info[loc[t].w] = [k \in {"last_hash"} |-> loc[t].key]

\* what a step changes of a wrapped computation's stats, info or dict, it
\* changes as a step of a call of that wrapped computation
OwnStateStep ==
    \A v \in Wrapped :
        (stats'[v] # stats[v] \/ info'[v] # info[v] \/ mem_cache'[v] # mem_cache[v]) =>
            \E t \in Threads : pc'[t] # pc[t] /\ loc'[t].w = v

OwnStatePerCall ==
    \A t \in Threads : pc[t] # "idle" =>
        LET w == loc[t].w IN
        /\ \A v \in Wrapped \ {w} :
              /\ stats[v] = pre[t].stats[v]
              /\ info[v] = pre[t].info[v]
              /\ mem_cache[v] = pre[t].mem_cache[v]
        /\ (db[w] = NoDb /\ loc[t].key # "") =>
              /\ pc[t] # "open" => loc[t].cache = MemHandle
              /\ nhandles = pre[t].nhandles
              /\ openHandles = {} /\ closed = pre[t].closed
              /\ disk = pre[t].disk
              /\ \A k \in DOMAIN pre[t].mem_cache[w] :
                    k \in DOMAIN mem_cache[w] /\ mem_cache[w][k] = pre[t].mem_cache[w][k]
              /\ PastCheck(t) =>
                    (loc[t].hit <=> loc[t].key \in DOMAIN pre[t].mem_cache[w])

\* C15: every step that changes the stats, the info or the dict of a wrapped
\* computation is a step of a call of that wrapped computation; during and
\* after a call, those of every other wrapped computation are as they were
\* when the call started; a call of a wrapped computation without db works on
\* that computation's one dict (what earlier calls stored is in it, and is
\* what decides hit or miss) and opens, closes and writes no shelf.
C15_PerWrapped == [][OwnStateStep]_vars /\ []OwnStatePerCall

\* a call of one wrapped computation has returned after a miss while the
\* other wrapped computation, called before, keeps its own counters, info and
\* entry in its own dict
C15_Witness ==
    \E t \in Threads : \E v \in Wrapped :
        /\ pc[t] = "returned" /\ ~loc[t].hit /\ loc[t].w # v
        /\ db[loc[t].w] = NoDb /\ db[v] = NoDb
        /\ stats[v] = [cached |-> 1, computed |-> 1]
        /\ DOMAIN info[v] = {"last_hash"}
        /\ Cardinality(DOMAIN mem_cache[v]) = 1
        /\ stats[loc[t].w] = [cached |-> 0, computed |-> 1]
        /\ DOMAIN mem_cache[loc[t].w] = {loc[t].key}

\* C16: a call that found its key in the backend is never at the invocation
\* or at the write; the computation is not invoked for it, both backends hold
\* the keys and values they held when it started, computed and the other
\* wrapped computations' stats and info are as they were, and when it has
\* returned cached is 1 more and last_hash is its key.
C16_HitReadOnly ==
    \A t \in Threads : (PastCheck(t) /\ loc[t].hit) =>
        LET w == loc[t].w IN
        /\ pc[t] \notin {"compute", "set", "raised"}
        /\ ~loc[t].cfail /\ loc[t].res = NoObject
        /\ invoked = pre[t].invoked
        /\ mem_cache = pre[t].mem_cache
        /\ disk = pre[t].disk
        /\ stats[w].computed = pre[t].stats[w].computed
        /\ \A v \in Wrapped \ {w} : stats[v] = pre[t].stats[v] /\ info[v] = pre[t].info[v]
        /\ info[w] = [k \in {"last_hash"} |-> loc[t].key]
        /\ pc[t] = "returned" =>
              /\ stats[w].cached = pre[t].stats[w].cached + 1
              /\ loc[t].r = Content(w, loc[t].cache)[loc[t].key]

\* a call has returned as a hit on the shelve database, which holds two
\* entries, after the call before it had other parameters
C16_Witness ==
    \E t \in Threads :
        /\ pc[t] = "returned" /\ loc[t].hit
        /\ loc[t].cache.kind = "shelf"
        /\ Cardinality(DOMAIN disk) = 2
        /\ pre[t].info[loc[t].w] # info[loc[t].w]
        /\ stats[loc[t].w] = [cached |-> 1, computed |-> 2]

\* C17: between sequential calls, for every wrapped computation without db,
\* cached + computed is the number of its calls that derived a key, and its
\* dict holds as many entries as computed counts, less the calls whose
\* computation raised.
C17_Accounting ==
    Quiet =>
        \A w \in Wrapped : db[w] = NoDb =>
            /\ stats[w].cached + stats[w].computed = tally[w].derived
            /\ Cardinality(DOMAIN mem_cache[w]) = stats[w].computed - tally[w].failed

\* three calls of a wrapped computation without db are over: one derived no
\* key, one raised from the computation, one stored its result
C17_Witness ==
    /\ Quiet /\ ncalls = 3
    /\ \E w \in Wrapped :
          /\ db[w] = NoDb
          /\ tally[w] = [derived |-> 2, failed |-> 1]
          /\ stats[w] = [cached |-> 0, computed |-> 2]
          /\ Cardinality(DOMAIN mem_cache[w]) = 1
====
